---- MODULE Spec2Model ----
(***************************************************************************)
(* Handle-based pool of MPFR variables (gnu-octave/apa): the allocator     *)
(* mex_mpfr_allocate, the free list with mex_mpfr_mark_free and            *)
(* free_list_compress, and the index check is_valid, as written in         *)
(* inst/mex/gmp_mpfr_interface.h.                                          *)
(*                                                                         *)
(* Indices are 1-based as in idx_t.  The C array free_list[0 .. size-1] is *)
(* the sequence free_list[1 .. free_list_size]; the C loop index i is the  *)
(* sequence index i + 1.                                                   *)
(***************************************************************************)
EXTENDS Integers, Sequences, FiniteSets, TLC

\* #define DATA_CHUNK_SIZE 1000
DATA_CHUNK_SIZE == 1000

\* ---------------------------------------------------------------- bounds
\* Small request sizes are 0 .. MaxCount.
MaxCount == 2
\* Calls of mex_mpfr_allocate stop once the caller holds this many ranges,
\* or when the pool size would pass MaxDataSize.
MaxLive == 3
MaxDataSize == 6
\* Calls of mex_mpfr_mark_free by a disciplined caller stop once the free
\* list has this many entries; by any caller, once it has MaxAnyFree.
MaxFreeList == 4
MaxAnyFree == 2
\* Growing pools: the caller holds at most MaxChunkLive ranges and the pool
\* size stays within MaxChunks chunks.
MaxChunkLive == 2
MaxChunks == 3
\* Values the caller stores with set_d are 1 .. MaxVal.
MaxVal == 1
\* mark_free is called on every pair of indices in 0 .. MaxIdx.
MaxIdx == 3
\* The matrix commands run in a pool of MatSlots slots, with row counts
\* 0 .. MatRows.
MatSlots == 3
MatRows == 2
\* The multiply kernels run on operands of up to KerDim rows and columns laid
\* side by side in a pool of KerSlots slots, of which at most KerOdd differ
\* from 1, with MaxWorkers workers; a slot of low precision has MatPrec bits.
KerSlots == 8
KerDim == 2
KerOdd == 1
MaxWorkers == 2
MatPrec == 1
\* Transpose runs on ranges of TrLen slots.
TrLen == 6

\* ------------------------------------------------------------ vocabulary
NULL == "NULL"
HEAP == "HEAP"
\* The state mpfr_init leaves a variable in: NaN at default precision.
NaN == [kind |-> "NaN", d |-> 0]
\* Storage never passed to mpfr_init.
Garbage == [kind |-> "Garbage", d |-> 0]
\* The variable after mpfr_set_d stored the double v.
Num(v) == [kind |-> "Num", d |-> v]

\* typedef struct { size_t start; size_t end; } idx_t;
idx_t(s, e) == [start |-> s, end |-> e]

Min(S) == CHOOSE x \in S : \A y \in S : x <= y

VARIABLES
  data_ptr,            \* data: NULL or a block from mxMalloc / mxRealloc
  data,                \* contents of data[]: slot -> value, for the slots whose
                       \* value is not the default of their region (see Slot)
  data_uninit,         \* slots 1 .. data_uninit of the block were never mpfr_init'ed
  data_capacity,
  data_size,
  free_list_ptr,       \* free_list: NULL or a block
  free_list,           \* free_list[0 .. free_list_size - 1], as a sequence of idx_t
  free_list_capacity,
  free_list_size,
  live,                \* ranges the caller holds: returned by allocate, not freed since
  last,                \* the last call: its arguments and what it returned
  pc,                  \* "ready", or "crashed" after a fault
  throw_error,         \* int throw_error of mexFunction when the last command
                       \* ended: 1 and the command raised mexErrMsgIdAndTxt, or 0
  cmd,                 \* the last matrix command: its other arguments, the
                       \* slots it read and wrote, its status array and, while
                       \* a parallel strategy runs, where its workers are
  data_prec,           \* precision of the slots of data[]: slot -> bits, for the
                       \* slots whose precision is not the default
  VERBOSE,             \* static int VERBOSE
  printed              \* the last command printed an error message

vars == <<data_ptr, data, data_uninit, data_capacity, data_size,
          free_list_ptr, free_list, free_list_capacity, free_list_size,
          live, last, pc, throw_error, cmd, data_prec, VERBOSE, printed>>

\* The pool: slot storage, size, capacity and the free list.
pool == <<data_ptr, data, data_uninit, data_capacity, data_size,
          free_list_ptr, free_list, free_list_capacity, free_list_size>>

\* Value of slot i (1-based) of the block data points to.
Slot(d, uninit, i) ==
  IF i \in DOMAIN d THEN d[i] ELSE IF i <= uninit THEN Garbage ELSE NaN

\* Mutant: is_valid does not compare the end index with data_size.
is_valid_any_end(idx, size) == (1 <= idx.start) /\ (idx.start <= idx.end)

\* Mutant: is_valid accepts the start index 0.
is_valid_from_zero(idx, size) ==
  (0 <= idx.start) /\ (idx.start <= idx.end) /\ (idx.end <= size)

\* int is_valid (idx_t *idx)
is_valid(idx, size) ==
  (1 <= idx.start) /\ (idx.start <= idx.end) /\ (idx.end <= size)

\* inline size_t length (idx_t *idx)
length(idx) == idx.end - idx.start + 1

\* idx->start and idx->end before mex_mpfr_allocate has written them.
NoIdx == idx_t(0, 0)

\* ------------------------------------------------------------ free list

\* Mutant: free_list_remove drops the last entry as well.
free_list_remove_two(fl, i) ==
  [k \in 1 .. (IF Len(fl) >= 2 THEN Len(fl) - 2 ELSE 0) |->
     IF k < i THEN fl[k] ELSE fl[k + 1]]

\* void free_list_remove (size_t i): entries after i move down one place
\* and free_list_size drops by one.
free_list_remove(fl, i) ==
  [k \in 1 .. (Len(fl) - 1) |-> IF k < i THEN fl[k] ELSE fl[k + 1]]

\* The last place the loop of free_list_remove reads, whatever i is:
\* free_list[i + 1] with i = free_list_size - 1, the place Len(fl) + 1 of
\* the sequence.
LastRead(fl) == Len(fl) + 1

\* free_list_remove reads past the capacity entries of the block.
OutOfBlock(fl, capacity) == LastRead(fl) > capacity

\* Rule 1 of free_list_compress: the end index of entry i matches data_size.
Rule1(fl, size, i) == fl[i].end = size

\* Mutant: Rule 2 sees a neighbour only on the upper side of entry i.
Rule2UpperOnly(fl, i) ==
  {j \in (i + 1) .. Len(fl) : fl[i].end + 1 = fl[j].start}

\* Rule 2 of free_list_compress: the entries j > i that neighbour entry i.
Rule2(fl, i) ==
  {j \in (i + 1) .. Len(fl) :
     (fl[i].end + 1 = fl[j].start) \/ (fl[j].end + 1 = fl[i].start)}

\* The entry Rule 2 leaves at place i for the neighbours i and j.
Merged(fl, i, j) ==
  idx_t(IF fl[i].start <= fl[j].start THEN fl[i].start ELSE fl[j].start,
        IF fl[i].end >= fl[j].end THEN fl[i].end ELSE fl[j].end)

\* Mutant: Rule 1 takes one slot more than the removed entry from the pool.
ShrunkSizeBelowStart(entry) == IF entry.start >= 2 THEN entry.start - 2 ELSE 0

\* Mutant: Rule 1 keeps the first slot of the removed entry in the pool.
ShrunkSizeKeepsStart(entry) == entry.start

\* data_size = free_list[i].start - 1;
ShrunkSize(entry) == entry.start - 1

\* One pass of the for loop of free_list_compress: the first place i at which
\* a rule applies (Rule 1 is tried before Rule 2), or 0 when the pass ends
\* with have_merge = 0.
FirstRule(fl, size) ==
  LET I == {i \in 1 .. Len(fl) : Rule1(fl, size, i) \/ Rule2(fl, i) # {}}
  IN  IF I = {} THEN 0 ELSE Min(I)

\* Mutant: free_list_compress stops after the first pass of its for loop.
CompressOnce(fl, size) ==
  LET i == FirstRule(fl, size) IN
  IF i = 0 THEN [free_list |-> fl, data_size |-> size]
  ELSE IF Rule1(fl, size, i)
       THEN [free_list |-> free_list_remove(fl, i), data_size |-> ShrunkSize(fl[i])]
       ELSE LET j == Min(Rule2(fl, i)) IN
            [free_list |-> free_list_remove([fl EXCEPT ![i] = Merged(fl, i, j)], j),
             data_size |-> size]

\* void free_list_compress (): the do-while loop, to its fixed point.
\* The result is the pair of free_list and data_size it leaves.
RECURSIVE free_list_compress(_, _)
free_list_compress(fl, size) ==
  LET i == FirstRule(fl, size) IN
  IF i = 0 THEN [free_list |-> fl, data_size |-> size]
  ELSE IF Rule1(fl, size, i)
       THEN free_list_compress(free_list_remove(fl, i), ShrunkSize(fl[i]))
       ELSE LET j == Min(Rule2(fl, i)) IN
            free_list_compress(
              free_list_remove([fl EXCEPT ![i] = Merged(fl, i, j)], j), size)

\* ------------------------------------------------------------ allocator

\* The entries the reuse loop of mex_mpfr_allocate accepts.
Fits(fl, count) == {i \in 1 .. Len(fl) : count <= length(fl[i])}

\* Mutant: the reuse loop stops at the last entry it accepts.
LastFit(fl, count) ==
  CHOOSE i \in Fits(fl, count) : \A k \in Fits(fl, count) : k <= i

\* for (i = 0; i < free_list_size; i++) if (count <= length (free_list + i)):
\* the entry the loop stops at.
FirstFit(fl, count) == Min(Fits(fl, count))

\* Mutant: the reuse loop removes the entry even when slots of it are left.
ReuseAlwaysRemoves(fl, i, count) == free_list_remove(fl, i)

\* Mutant: the reuse loop hands out the slots and leaves the entry as it was.
ReuseKeepsEntry(fl, i, count) == fl

\* The free list after the reuse loop took count slots of entry i.
Reuse(fl, i, count) ==
  IF count < length(fl[i])
  THEN [fl EXCEPT ![i] = idx_t(fl[i].start + count, fl[i].end)]
  ELSE free_list_remove(fl, i)

\* Mutant: the new range starts at the old pool size.
NewIdxFromSize(size, count) == idx_t(size, size + count - 1)

\* idx->start = data_size + 1; data_size += count; idx->end = data_size;
NewIdx(size, count) == idx_t(size + 1, size + count)

\* Mutant: the capacity grows by one chunk, whatever the request.
OneChunkMore(needed, capacity) ==
  IF needed > capacity THEN capacity + DATA_CHUNK_SIZE ELSE capacity

\* while ((data_size + count) > new_capacity) new_capacity += DATA_CHUNK_SIZE;
RECURSIVE NewCapacity(_, _)
NewCapacity(needed, capacity) ==
  IF needed > capacity THEN NewCapacity(needed, capacity + DATA_CHUNK_SIZE)
  ELSE capacity

\* The contents of the block after data = mxMalloc (...) when data is NULL,
\* data = mxRealloc (data, ...) otherwise: mxRealloc keeps the old contents.
Regrown(d, ptr) == IF ptr = NULL THEN << >> ELSE d

\* What cmd holds.  A, B: the operands (op and nothing, for transpose);
\* read, written: the slots the command read and wrote; calls: the mpfr_set,
\* mpfr_fma and mpfr_apa_dot calls it made; ret: the status array plhs[0];
\* before: data[] when the command began.  While a parallel strategy runs:
\* phase, the parallel region; pos and owner, for each of its tasks, the
\* next step and the worker that took it (0: none); acc, the int ret of the
\* task; Ai, the row buffer of strategy 7; access, who touched what:
\* <<worker, "data" or "ret", index, "r" or "w">> and, for the row buffer,
\* <<worker, "Ai", index, "r" or "w", phase>>.
NoCmd ==
  [A |-> NoIdx, B |-> NoIdx, strategy |-> 0, read |-> {}, written |-> {},
   nlhs |-> 0, rnd |-> "RNDZ", calls |-> 0, ret |-> << >>, before |-> << >>,
   phase |-> 0, pos |-> << >>, owner |-> << >>, acc |-> << >>, Ai |-> << >>,
   access |-> {}]

Cmd(A, B, strategy, read, written) ==
  [NoCmd EXCEPT !.A = A, !.B = B, !.strategy = strategy,
                !.read = read, !.written = written]

\* The call record kept in last.  fresh, for mark_free: idx is the range the
\* call just before, an allocate, returned; for allocate: the call just
\* before was such a mark_free, it freed the range, and count is its length.
\* capacity is data_capacity at the time of the call.
Call(op, count, idx, ret, path, oom, fresh) ==
  [op |-> op, count |-> count, idx |-> idx, ret |-> ret, path |-> path,
   oom |-> oom, fresh |-> fresh, capacity |-> data_capacity]

\* The caller's ranges once the slots of idx are given up: a range that idx
\* cuts is kept as the pieces outside idx.
Release(lv, idx) ==
  LET pieces(r) ==
        {p \in {idx_t(r.start, idx.start - 1), idx_t(idx.end + 1, r.end)} :
           (r.start <= p.start) /\ (p.start <= p.end) /\ (p.end <= r.end)}
  IN  UNION {IF (r.end < idx.start) \/ (idx.end < r.start) THEN {r} ELSE pieces(r)
             : r \in lv}

\* int mex_mpfr_allocate (size_t count, idx_t *idx).  oom: mxMalloc / mxRealloc
\* returns NULL.
mex_mpfr_allocate(count, oom) ==
  /\ pc = "ready"
  /\ oom => /\ count # 0
            /\ free_list_size = 0 \/ free_list_ptr # NULL
            /\ Fits(free_list, count) = {}
            /\ data_size + count > data_capacity
  /\ LET fresh == /\ last.op = "mark_free"
                  /\ last.path = "freed"
                  /\ last.fresh
                  /\ count = length(last.idx)
     IN
     IF count = 0
     THEN /\ last' = Call("allocate", count, NoIdx, 0, "zero", FALSE, FALSE)
          /\ UNCHANGED <<data_ptr, data, data_uninit, data_capacity, data_size,
                         free_list_ptr, free_list, free_list_capacity,
                         free_list_size, live, pc>>
     ELSE IF free_list_size > 0 /\ free_list_ptr = NULL
     THEN \* free_list[0] is read through a null pointer
          /\ pc' = "crashed"
          /\ last' = Call("allocate", count, NoIdx, 0, "fault", FALSE, fresh)
          /\ UNCHANGED <<data_ptr, data, data_uninit, data_capacity, data_size,
                         free_list_ptr, free_list, free_list_capacity,
                         free_list_size, live>>
     ELSE IF Fits(free_list, count) # {}
     THEN LET i   == FirstFit(free_list, count)
              idx == idx_t(free_list[i].start, free_list[i].start + count - 1)
              ret == IF is_valid(idx, data_size) THEN 1 ELSE 0
              \* free_list_remove (i) reads free_list[free_list_size]: past
              \* the block, the read ends the process or returns
              out == /\ count = length(free_list[i])
                     /\ OutOfBlock(free_list, free_list_capacity)
          IN  \E segv \in (IF out THEN BOOLEAN ELSE {FALSE}) :
              IF segv
              THEN /\ pc' = "crashed"
                   /\ last' = Call("allocate", count, NoIdx, 0, "fault", FALSE, fresh)
                   /\ UNCHANGED <<data_ptr, data, data_uninit, data_capacity,
                                  data_size, free_list_ptr, free_list,
                                  free_list_capacity, free_list_size, live>>
              ELSE /\ free_list' = Reuse(free_list, i, count)
                   /\ free_list_size' = Len(free_list')
                   /\ live' = IF ret = 1 THEN live \cup {idx} ELSE live
                   /\ last' = Call("allocate", count, idx, ret, "reuse", FALSE, fresh)
                   /\ UNCHANGED <<data_ptr, data, data_uninit, data_capacity,
                                  data_size, free_list_ptr, free_list_capacity, pc>>
     ELSE IF (data_size + count) > data_capacity /\ oom
     THEN \* data = mxRealloc (data, ...) stored NULL over the old pointer
          /\ data_ptr' = NULL
          /\ data' = << >>
          /\ data_uninit' = 0
          /\ last' = Call("allocate", count, NoIdx, 0, "oom", TRUE, fresh)
          /\ UNCHANGED <<data_capacity, data_size, free_list_ptr, free_list,
                         free_list_capacity, free_list_size, live, pc>>
     ELSE LET grow == (data_size + count) > data_capacity
              idx  == NewIdx(data_size, count)
          IN  /\ data_ptr' = IF grow THEN HEAP ELSE data_ptr
              \* mxRealloc (NULL, ...) is a fresh block: only the slots from
              \* data_capacity on are passed to mpfr_init
              /\ data' = IF grow THEN Regrown(data, data_ptr) ELSE data
              /\ data_uninit' = IF grow /\ data_ptr = NULL THEN data_capacity
                                ELSE data_uninit
              /\ data_capacity' = IF grow
                                  THEN NewCapacity(data_size + count, data_capacity)
                                  ELSE data_capacity
              /\ data_size' = idx.end
              /\ live' = IF is_valid(idx, data_size') THEN live \cup {idx} ELSE live
              /\ last' = Call("allocate", count, idx,
                              IF is_valid(idx, data_size') THEN 1 ELSE 0,
                              "new", FALSE, fresh)
              /\ UNCHANGED <<free_list_ptr, free_list, free_list_capacity,
                             free_list_size, pc>>

\* Mutant: mark_free leaves the variables of the range as they are.
ReinitNothing(d, uninit, idx) == d

\* for (i = idx->start - 1; i < idx->end; i++) { mpfr_clear (data + i);
\* mpfr_init (data + i); }: the contents of data[] afterwards.
Reinit(d, uninit, idx) ==
  LET lo == idx.start .. (IF idx.end <= uninit THEN idx.end ELSE uninit)
  IN  [i \in ((DOMAIN d) \ (idx.start .. idx.end)) \cup lo |->
         IF (idx.start <= i) /\ (i <= idx.end) THEN NaN ELSE d[i]]

\* Some slot of idx holds storage that was never initialised.
TouchesGarbage(d, uninit, idx) ==
  \E i \in idx.start .. (IF idx.end <= uninit THEN idx.end ELSE uninit) :
     Slot(d, uninit, i) = Garbage

\* void mex_mpfr_mark_free (idx_t *idx).  oom: mxMalloc / mxRealloc returns
\* NULL.  fault: mpfr_clear of a never initialised variable ends the process
\* (it may also return).
mex_mpfr_mark_free(idx, oom, fault) ==
  /\ pc = "ready"
  /\ oom => is_valid(idx, data_size) /\ free_list_size = free_list_capacity
  /\ fault => /\ is_valid(idx, data_size)
              /\ ~oom
              /\ data_ptr # NULL
              /\ TouchesGarbage(data, data_uninit, idx)
  /\ LET fresh == (last.op = "allocate") /\ (last.ret = 1) /\ (last.idx = idx)
         extend == free_list_size = free_list_capacity
     IN
     IF ~is_valid(idx, data_size)
     THEN /\ last' = Call("mark_free", 0, idx, 0, "invalid", FALSE, fresh)
          /\ UNCHANGED <<data_ptr, data, data_uninit, data_capacity, data_size,
                         free_list_ptr, free_list, free_list_capacity,
                         free_list_size, live, pc>>
     ELSE IF extend /\ oom
     THEN \* free_list = mxRealloc (free_list, ...) stored NULL over the old pointer
          /\ free_list_ptr' = NULL
          /\ free_list' = << >>
          /\ live' = Release(live, idx)
          /\ last' = Call("mark_free", 0, idx, 0, "oom", TRUE, fresh)
          /\ UNCHANGED <<data_ptr, data, data_uninit, data_capacity, data_size,
                         free_list_capacity, free_list_size, pc>>
     ELSE IF \/ data_ptr = NULL
             \/ fault
             \/ extend /\ free_list_ptr = NULL /\ free_list_size > 0
     THEN \* mpfr_clear through a null pointer or of garbage; or the entries
          \* of a fresh block, never written, are read by free_list_compress
          /\ pc' = "crashed"
          /\ last' = Call("mark_free", 0, idx, 0, "fault", FALSE, fresh)
          /\ UNCHANGED <<data_ptr, data, data_uninit, data_capacity, data_size,
                         free_list_ptr, free_list, free_list_capacity,
                         free_list_size, live>>
     ELSE LET appended == Append(free_list, idx)
              c == free_list_compress(appended, data_size)
              capacity == IF extend THEN free_list_capacity + DATA_CHUNK_SIZE
                          ELSE free_list_capacity
              \* a rule fired: its free_list_remove reads
              \* free_list[free_list_size], which may lie past the block
              out == /\ Len(c.free_list) < Len(appended)
                     /\ OutOfBlock(appended, capacity)
          IN  \E segv \in (IF out THEN BOOLEAN ELSE {FALSE}) :
              IF segv
              THEN /\ pc' = "crashed"
                   /\ last' = Call("mark_free", 0, idx, 0, "fault", FALSE, fresh)
                   /\ UNCHANGED <<data_ptr, data, data_uninit, data_capacity,
                                  data_size, free_list_ptr, free_list,
                                  free_list_capacity, free_list_size, live>>
              ELSE /\ free_list_ptr' = HEAP
                   /\ free_list_capacity' = capacity
                   /\ data' = Reinit(data, data_uninit, idx)
                   /\ free_list' = c.free_list
                   /\ free_list_size' = Len(c.free_list)
                   /\ data_size' = c.data_size
                   /\ live' = Release(live, idx)
                   /\ last' = Call("mark_free", 0, idx, 0, "freed", FALSE, fresh)
                   /\ UNCHANGED <<data_ptr, data_uninit, data_capacity, pc>>

\* The set_d command of mexFunction: one double stored in every slot of idx,
\* after extract_idx accepted idx.  fault: mpfr_set_d of a never initialised
\* variable ends the process (it may also return).
set_d(idx, v, fault) ==
  /\ pc = "ready"
  /\ is_valid(idx, data_size)
  /\ fault => data_ptr # NULL /\ TouchesGarbage(data, data_uninit, idx)
  /\ IF data_ptr = NULL \/ fault
     THEN /\ pc' = "crashed"
          /\ last' = Call("set_d", v, idx, 0, "fault", FALSE, FALSE)
          /\ UNCHANGED <<data_ptr, data, data_uninit, data_capacity, data_size,
                         free_list_ptr, free_list, free_list_capacity,
                         free_list_size, live>>
     ELSE /\ data' = [i \in (DOMAIN data) \cup (idx.start .. idx.end) |->
                        IF (idx.start <= i) /\ (i <= idx.end) THEN Num(v) ELSE data[i]]
          /\ last' = Call("set_d", v, idx, 1, "set", FALSE, FALSE)
          /\ UNCHANGED <<data_ptr, data_uninit, data_capacity, data_size,
                         free_list_ptr, free_list, free_list_capacity,
                         free_list_size, live, pc>>

\* ------------------------------------------------------- matrix commands

\* The contents of data[] once slot i holds the value v.
Store(d, uninit, i, v) ==
  IF (v = NaN) /\ (i > uninit)
  THEN [k \in (DOMAIN d) \ {i} |-> d[k]]
  ELSE [k \in (DOMAIN d) \cup {i} |-> IF k = i THEN v ELSE d[k]]

\* mpfr_init gives a variable the default precision, 53 bits unless changed.
DefaultPrec == 53

\* Precision of slot i.
Prec(p, i) == IF i \in DOMAIN p THEN p[i] ELSE DefaultPrec

\* Number of bits of x >= 0, and 2^n.
RECURSIVE BitLen(_)
BitLen(x) == IF x = 0 THEN 0 ELSE 1 + BitLen(x \div 2)

RECURSIVE Pow2(_)
Pow2(n) == IF n = 0 THEN 1 ELSE 2 * Pow2(n - 1)

\* x >= 0 rounded to p significant bits, toward zero (MPFR_RNDZ) or upward
\* (MPFR_RNDU), and the ternary value MPFR returns: 0 when the result is
\* exact, negative when it is below x, positive when it is above.
Round(x, p, rnd) ==
  LET e == BitLen(x)
      u == IF e > p THEN Pow2(e - p) ELSE 1
      lo == (x \div u) * u
  IN  IF lo = x THEN [d |-> x, t |-> 0]
      ELSE IF rnd = "RNDZ" THEN [d |-> lo, t |-> -1]
      ELSE [d |-> lo + u, t |-> 1]

\* mpfr_fma (rop, op1, op2, op3, rnd): op1 * op2 + op3 rounded to the
\* precision p of rop; not a number (and 0 returned) when an operand is.
mpfr_fma(op1, op2, op3, p, rnd) ==
  IF (op1.kind = "Num") /\ (op2.kind = "Num") /\ (op3.kind = "Num")
  THEN LET r == Round((op1.d * op2.d) + op3.d, p, rnd)
       IN  [v |-> Num(r.d), t |-> r.t]
  ELSE [v |-> NaN, t |-> 0]

\* mpfr_set (rop, op, rnd): op rounded to the precision p of rop.
mpfr_set(op, p, rnd) ==
  IF op.kind = "Num"
  THEN LET r == Round(op.d, p, rnd)
       IN  [v |-> Num(r.d), t |-> r.t]
  ELSE [v |-> NaN, t |-> 0]

\* ret |= t, for ternary values -1, 0 and 1 in an int.
OrInt(a, b) ==
  IF (a = -1) \/ (b = -1) THEN -1
  ELSE IF (a = 1) \/ (b = 1) THEN 1
  ELSE 0

\* mpfr_apa_dot (rop, a, b, K, prec, rnd): the sum of a[k] * b[k], k < K,
\* stored in rop; a and b are sequences of K values.
RECURSIVE DotSum(_, _, _)
DotSum(a, b, n) ==
  IF n = 0 THEN 0 ELSE DotSum(a, b, n - 1) + (a[n].d * b[n].d)

mpfr_apa_dot(a, b, p, rnd) ==
  IF \A n \in DOMAIN a : (a[n].kind = "Num") /\ (b[n].kind = "Num")
  THEN LET r == Round(DotSum(a, b, Len(a)), p, rnd)
       IN  [v |-> Num(r.d), t |-> r.t]
  ELSE [v |-> NaN, t |-> 0]

\* MEX_FCN_ERR in mex_mpfr_algorithms.c: the command fails with the error
\* and does nothing more.
MEX_FCN_ERR(call, c) ==
  /\ last' = call
  /\ cmd' = c
  /\ throw_error' = 1
  /\ printed' = (VERBOSE > 0)
  /\ UNCHANGED <<data_ptr, data, data_uninit, data_capacity, data_size,
                 free_list_ptr, free_list, free_list_capacity, free_list_size,
                 live, pc, data_prec, VERBOSE>>

\* The command ends the process: a null or never initialised variable is
\* used, or an integer is divided by zero.
Fault(call, c) ==
  /\ last' = call
  /\ cmd' = c
  /\ pc' = "crashed"
  /\ UNCHANGED <<data_ptr, data, data_uninit, data_capacity, data_size,
                 free_list_ptr, free_list, free_list_capacity, free_list_size,
                 live, throw_error, data_prec, VERBOSE, printed>>

\* Mutant: a row count of 0 is let through.
RowsAny(M) == TRUE

\* if (! extract_ui (6, nrhs, prhs, &M) || (M == 0)) MEX_FCN_ERR (...)
RowsOK(M) == M # 0

\* uint64_t N = length (&C) / M; if (length (&C) != (M * N)) MEX_FCN_ERR (...)
ShapeC(C, M) == length(C) = M * (length(C) \div M)

\* Mutant: the length of A is not compared with M * K.
ShapeAAny(A, M) == TRUE

\* uint64_t K = length (&A) / M; if (length (&A) != (M * K)) MEX_FCN_ERR (...)
ShapeA(A, M) == length(A) = M * (length(A) \div M)

\* if (length (&B) != (K * N)) MEX_FCN_ERR (...)
ShapeB(B, K, N) == length(B) = K * N

\* The strategies without a parallel loop, the strategies 3 to 6 with the
\* loops of 1 and 2 under omp parallel for, and the row-copy strategy.
Sequential == {1, 2}
Parallel == {3, 4, 5, 6}
RowCopy == 7

\* #ifdef MPLAPACK: the build has case 8.
MPLAPACK == FALSE

\* Mutant: case 8 is taken whether or not the build has it.
CompiledAlways8 == Sequential \cup Parallel \cup {RowCopy, 8}

\* The strategies with a case in the switch of mpfr_apa_mmm.
Compiled ==
  Sequential \cup Parallel \cup {RowCopy} \cup (IF MPLAPACK THEN {8} ELSE {})

\* A parallel region is a phase: its iterations are tasks, each run by one
\* worker from start to end, and the region ends when all have ended.
\* Strategy 7 with M > 1 has the phases mpfr_init2 of Ai (1), for each row i
\* the copy (2 + 2i) and the dot products (3 + 2i), and mpfr_clear (2M + 2).
NumPhases(strategy, M) ==
  IF (strategy = RowCopy) /\ (M > 1) THEN (2 * M) + 2 ELSE 1

\* The iterations of the parallel loop (or loops, when nested) of a phase.
NumTasks(strategy, phase, M, N, K) ==
  CASE strategy \in Sequential -> 1
    [] strategy = 3 -> M
    [] strategy = 4 -> N
    [] strategy \in {5, 6} -> M * N
    [] OTHER -> IF M = 1 THEN N
                ELSE IF phase = (2 * M) + 2 THEN 1
                ELSE IF (phase = 1) \/ (phase % 2 = 0) THEN K
                ELSE N

\* The steps of one task: K mpfr_fma and the store of ret for each of its
\* elements; in strategy 7 one call, or mpfr_apa_dot and the store of its
\* result, or the K mpfr_clear.
NumOps(strategy, phase, M, N, K) ==
  CASE strategy \in Sequential -> M * N * (K + 1)
    [] strategy = 3 -> N * (K + 1)
    [] strategy = 4 -> M * (K + 1)
    [] strategy \in {5, 6} -> K + 1
    [] OTHER -> IF M = 1 THEN 2
                ELSE IF phase = (2 * M) + 2 THEN K
                ELSE IF (phase = 1) \/ (phase % 2 = 0) THEN 1
                ELSE 2

\* The n-th element (i, j) of task t, in the order of the loops.
Elem(strategy, M, N, t, n) ==
  CASE strategy = 1 -> [i |-> (n - 1) \div N, j |-> (n - 1) % N]
    [] strategy = 2 -> [i |-> (n - 1) % M, j |-> (n - 1) \div M]
    [] strategy = 3 -> [i |-> t, j |-> n - 1]
    [] strategy = 4 -> [i |-> n - 1, j |-> t]
    [] strategy = 5 -> [i |-> t \div N, j |-> t % N]
    [] OTHER -> [i |-> t % M, j |-> t \div M]

\* Mutant: strategy 4 runs the k loop from K - 1 down to 0.
InnerKDown4(strategy, K, q) == IF strategy = 4 THEN K - 1 - q ELSE q

\* for (uint64_t k = 0; k < K; k++): k in the q-th round, q = 0 .. K - 1.
InnerK(strategy, K, q) == q

\* The n-th step of task t of a phase.  first: int ret = 0 comes before it.
Op(strategy, phase, M, N, K, t, n) ==
  LET step(kind, i, j, k, first) ==
        [kind |-> kind, i |-> i, j |-> j, k |-> k, first |-> first]
  IN
  IF strategy # RowCopy
  THEN LET e == Elem(strategy, M, N, t, ((n - 1) \div (K + 1)) + 1)
           q == (n - 1) % (K + 1)
       IN  IF q < K
           THEN step("fma", e.i, e.j, InnerK(strategy, K, q), q = 0)
           ELSE step("ret", e.i, e.j, 0, FALSE)
  ELSE IF M = 1
  THEN step(IF n = 1 THEN "dotA" ELSE "ret", 0, t, 0, FALSE)
  ELSE IF phase = 1
  THEN step("init2", 0, 0, t, FALSE)
  ELSE IF phase = (2 * M) + 2
  THEN step("clear", 0, 0, n - 1, FALSE)
  ELSE IF phase % 2 = 0
  THEN step("copy", (phase - 2) \div 2, 0, t, FALSE)
  ELSE step(IF n = 1 THEN "dotAi" ELSE "ret", (phase - 3) \div 2, t, 0, FALSE)

\* Mutant: the row i is left out of the place of C[i,j].
SlotCRow0(C, M, op) == C.start + (M * op.j)

\* C + (M * j) + i, B + k + (K * j), A + i + (M * k): the slots of the pool
\* they name; C_ptr = &mpfr_data[C.start - 1].
SlotC(C, M, op) == C.start + (M * op.j) + op.i
SlotB(B, K, op) == B.start + op.k + (K * op.j)
SlotA(A, M, op) == A.start + op.i + (M * op.k)

\* One step of worker w on task t: the contents of data[] and the record of
\* the command afterwards.  st.d is data[], st.c the record.
Exec(st, uninit, pr, C, M, op, t, w) ==
  LET c == st.c
      d == st.d
      K == length(c.A) \div M
      cs == SlotC(C, M, op)
      bs == SlotB(c.B, K, op)
      as == SlotA(c.A, M, op)
      ri == (((M * op.j) + op.i) * c.nlhs) + 1
      col == [n \in 1 .. K |-> c.B.start + (n - 1) + (K * op.j)]
      row == [n \in 1 .. K |-> c.A.start + op.i + (M * (n - 1))]
      reads(S) == {<<w, "data", s, "r">> : s \in S}
      colvals == [n \in 1 .. K |-> Slot(d, uninit, col[n])]
      dot(a, from) ==
        LET r == mpfr_apa_dot(a, colvals, Prec(pr, cs), c.rnd)
        IN  [d |-> Store(d, uninit, cs, r.v),
             c |-> [c EXCEPT !.acc[t] = r.t,
                             !.read = @ \cup {col[n] : n \in 1 .. K} \cup from,
                             !.written = @ \cup {cs},
                             !.calls = @ + 1,
                             !.access = @ \cup {<<w, "data", cs, "w">>}
                                          \cup reads({col[n] : n \in 1 .. K})
                                          \cup reads(from)
                                          \cup (IF from = {}
                                                THEN {<<w, "Ai", n, "r", c.phase>> : n \in 1 .. K}
                                                ELSE {})]]
  IN
  CASE op.kind = "fma" ->
         LET r == mpfr_fma(Slot(d, uninit, bs), Slot(d, uninit, as),
                           Slot(d, uninit, cs), Prec(pr, cs), c.rnd)
         IN  [d |-> Store(d, uninit, cs, r.v),
              c |-> [c EXCEPT !.acc[t] = OrInt(IF op.first THEN 0 ELSE @, r.t),
                              !.read = @ \cup {cs, bs, as},
                              !.written = @ \cup {cs},
                              !.calls = @ + 1,
                              !.access = @ \cup {<<w, "data", cs, "w">>}
                                           \cup reads({cs, bs, as})]]
    [] op.kind = "ret" ->
         [d |-> d,
          c |-> [c EXCEPT !.ret[ri] = c.acc[t],
                          !.access = @ \cup {<<w, "ret", ri, "w">>}]]
    [] op.kind = "dotA" ->
         dot([n \in 1 .. K |-> Slot(d, uninit, row[n])], {row[n] : n \in 1 .. K})
    [] op.kind = "dotAi" -> dot(c.Ai, {})
    [] op.kind = "init2" ->
         [d |-> d,
          c |-> [c EXCEPT !.Ai[op.k + 1] = NaN,
                          !.access = @ \cup {<<w, "Ai", op.k + 1, "w", c.phase>>}]]
    [] op.kind = "copy" ->
         [d |-> d,
          c |-> [c EXCEPT !.Ai[op.k + 1] =
                            mpfr_set(Slot(d, uninit, as), DefaultPrec, c.rnd).v,
                          !.read = @ \cup {as},
                          !.access = @ \cup {<<w, "Ai", op.k + 1, "w", c.phase>>}
                                       \cup reads({as})]]
    [] OTHER ->
         [d |-> d,
          c |-> [c EXCEPT !.Ai[op.k + 1] = Garbage,
                          !.access = @ \cup {<<w, "Ai", op.k + 1, "w", c.phase>>}]]

\* mpfr_apa_mmm, case 1 and case 2: the steps n .. of the loops, run by the
\* calling thread one after the other.
RECURSIVE mpfr_apa_mmm(_, _, _, _, _, _, _, _)
mpfr_apa_mmm(st, uninit, pr, C, M, strategy, n, last_n) ==
  IF n > last_n THEN st
  ELSE LET N == length(C) \div M
           K == length(st.c.A) \div M
       IN  mpfr_apa_mmm(Exec(st, uninit, pr, C, M,
                          Op(strategy, 1, M, N, K, 0, n), 0, 1),
                     uninit, pr, C, M, strategy, n + 1, last_n)

\* A phase begins: no task is taken and each is at its first step.
Begin(c, phase, tasks) ==
  [c EXCEPT !.phase = phase,
            !.pos = [u \in 0 .. tasks - 1 |-> 1],
            !.owner = [u \in 0 .. tasks - 1 |-> 0],
            !.acc = [u \in 0 .. tasks - 1 |-> 0]]

\* The kernel has returned: nothing of it is running and Ai is freed.
End(c) ==
  [c EXCEPT !.phase = 0, !.pos = << >>, !.owner = << >>, !.acc = << >>,
            !.Ai = << >>]

\* case 2001 of mex_mpfr_algorithms: mpfr_t.mtimes (C, A, B, prec, rnd, M,
\* strategy), with the right number of arguments, prec the default precision
\* and rnd accepted; nlhs is 1 when the caller asks for the status array.
\* A strategy with a parallel region leaves its steps to the workers.
mtimes(C, A, B, rnd, M, strategy, nlhs) ==
  /\ pc = "ready"
  /\ LET call(ret, path) == Call("mtimes", M, C, ret, path, FALSE, FALSE)
         none == [Cmd(A, B, strategy, {}, {}) EXCEPT !.nlhs = nlhs, !.rnd = rnd]
         N == length(C) \div M
         K == length(A) \div M
         \* plhs[0] = mxCreateNumericMatrix (nlhs ? length (&C) : 1, 1, ...)
         start == [none EXCEPT
                     !.ret = [n \in 1 .. (IF nlhs = 1 THEN length(C) ELSE 1) |-> 0],
                     !.before = data,
                     \* mpfr_ptr Ai = (mpfr_ptr) mxMalloc (K * sizeof (mpfr_t))
                     !.Ai = IF (strategy = RowCopy) /\ (M > 1)
                            THEN [n \in 1 .. K |-> Garbage]
                            ELSE << >>]
         used == (C.start .. C.end) \cup (A.start .. A.end) \cup (B.start .. B.end)
     IN
     IF ~(is_valid(C, data_size) /\ is_valid(A, data_size) /\ is_valid(B, data_size))
     THEN MEX_FCN_ERR(call(0, "range"), none)
     ELSE IF ~RowsOK(M)
     THEN MEX_FCN_ERR(call(0, "rows"), none)
     ELSE IF M = 0
     THEN Fault(call(0, "fault"), none)
     ELSE IF ~ShapeC(C, M)
     THEN MEX_FCN_ERR(call(0, "shape C"), none)
     ELSE IF ~ShapeA(A, M)
     THEN MEX_FCN_ERR(call(0, "shape A"), none)
     ELSE IF ~ShapeB(B, K, N)
     THEN MEX_FCN_ERR(call(0, "shape B"), none)
     ELSE IF strategy \notin Compiled
     THEN MEX_FCN_ERR(call(0, "strategy"), none)
     ELSE IF (data_ptr = NULL) \/ (\E i \in used : Slot(data, data_uninit, i) = Garbage)
     THEN Fault(call(0, "fault"), none)
     ELSE IF strategy \in Sequential
     THEN LET st == mpfr_apa_mmm([d |-> data, c |-> Begin(start, 1, 1)],
                              data_uninit, data_prec, C, M, strategy,
                              1, NumOps(strategy, 1, M, N, K))
          IN  /\ data' = st.d
              /\ cmd' = End(st.c)
              /\ last' = call(1, "done")
              /\ throw_error' = 0
              /\ printed' = FALSE
              /\ UNCHANGED <<data_ptr, data_uninit, data_capacity, data_size,
                             free_list_ptr, free_list, free_list_capacity,
                             free_list_size, live, pc, data_prec, VERBOSE>>
     ELSE /\ cmd' = Begin(start, 1, NumTasks(strategy, 1, M, N, K))
          /\ pc' = "mmm"
          /\ last' = call(0, "running")
          /\ throw_error' = 0
          /\ printed' = FALSE
          /\ UNCHANGED <<data_ptr, data, data_uninit, data_capacity, data_size,
                         free_list_ptr, free_list, free_list_capacity,
                         free_list_size, live, data_prec, VERBOSE>>

\* Mutant: the region ends as soon as one of its iterations has ended.
RegionOverNoWait(c, t, ops) == c.pos[t] > ops

\* The end of a #pragma omp parallel for region, once task t has made a
\* step: every iteration of the loop has ended (the barrier that closes the
\* region).
RegionOver(c, t, ops) == \A u \in DOMAIN c.pos : c.pos[u] > ops

\* Worker w runs the next step of task t of the parallel region mpfr_apa_mmm
\* is in.  A worker takes a task when it has none, and the loop of
\* mpfr_clear is run by the calling thread, worker 1.  The last step of the
\* last region ends the command.
worker(w, t) ==
  /\ pc = "mmm"
  /\ LET C == last.idx
         M == last.count
         N == length(C) \div M
         K == length(cmd.A) \div M
         s == cmd.strategy
         ph == cmd.phase
         ops == NumOps(s, ph, M, N, K)
         busy(c) == \E u \in DOMAIN c.pos : (c.owner[u] = w) /\ (c.pos[u] <= ops)
     IN
     /\ t \in DOMAIN cmd.pos
     /\ cmd.pos[t] <= ops
     /\ cmd.owner[t] \in {0, w}
     /\ (cmd.owner[t] = 0) => ~busy(cmd)
     /\ ((s = RowCopy) /\ (M > 1) /\ (ph = (2 * M) + 2)) => (w = 1)
     /\ LET st == Exec([d |-> data, c |-> [cmd EXCEPT !.owner[t] = w]],
                       data_uninit, data_prec, C, M,
                       Op(s, ph, M, N, K, t, cmd.pos[t]), t, w)
            c2 == [st.c EXCEPT !.pos[t] = @ + 1]
            over == RegionOver(c2, t, ops)
        IN  /\ data' = st.d
            /\ IF over /\ (ph = NumPhases(s, M))
               THEN /\ cmd' = End(c2)
                    /\ pc' = "ready"
                    /\ last' = [last EXCEPT !.ret = 1, !.path = "done"]
               ELSE /\ cmd' = IF over
                              THEN Begin(c2, ph + 1, NumTasks(s, ph + 1, M, N, K))
                              ELSE c2
                    /\ UNCHANGED <<pc, last>>
  /\ UNCHANGED <<data_ptr, data_uninit, data_capacity, data_size,
                 free_list_ptr, free_list, free_list_capacity, free_list_size,
                 live, throw_error, data_prec, VERBOSE, printed>>

\* Mutant: the lengths of rop and op are not compared.
SameLengthAny(rop, op) == TRUE

\* if (length (&rop) != length (&op)) MEX_FCN_ERR (...)
SameLength(rop, op) == length(rop) = length(op)

\* Mutant: rop is filled in the order op is read.
SlotRopInOrder(rop, ropM, ropN, n) == rop.start + (n - 1)

\* The n-th mpfr_set of the transpose loops (i outside, j inside),
\* n = 1 .. ropM * ropN: rop_ptr + j * ropM + i and op_ptr + i * ropN + j.
SlotRop(rop, ropM, ropN, n) ==
  rop.start + (((n - 1) % ropN) * ropM) + ((n - 1) \div ropN)

\* Mutant: the rows of op are taken to be ropM long.
SlotOpStrideM(op, ropM, ropN, n) ==
  op.start + (((n - 1) \div ropN) * ropM) + ((n - 1) % ropN)

SlotOp(op, ropM, ropN, n) ==
  op.start + (((n - 1) \div ropN) * ropN) + ((n - 1) % ropN)

\* Mutant: the status of a copy is stored at the place of the element in rop.
RetIndexOfElement(ropM, ropN, n, ret_stride) ==
  (((((n - 1) % ropN) * ropM) + ((n - 1) \div ropN)) * ret_stride) + 1

\* ret_ptr[i * ret_stride] = ...: the entry (counted from 1) the n-th
\* mpfr_set stores its status in.
RetIndex(ropM, ropN, n, ret_stride) == (((n - 1) \div ropN) * ret_stride) + 1

\* The contents of data[] and the record of the command after the mpfr_set
\* calls n .. ropM * ropN.
RECURSIVE transposed(_, _, _, _, _, _, _)
transposed(st, uninit, pr, rop, ropM, ropN, n) ==
  IF n > ropM * ropN THEN st
  ELSE LET c == st.c
           rs == SlotRop(rop, ropM, ropN, n)
           os == SlotOp(c.A, ropM, ropN, n)
           r == mpfr_set(Slot(st.d, uninit, os), Prec(pr, rs), c.rnd)
       IN  transposed([d |-> Store(st.d, uninit, rs, r.v),
                       c |-> [c EXCEPT !.ret[RetIndex(ropM, ropN, n, c.nlhs)] = r.t,
                                       !.read = @ \cup {os},
                                       !.written = @ \cup {rs},
                                       !.calls = @ + 1]],
                      uninit, pr, rop, ropM, ropN, n + 1)

\* case 2000 of mex_mpfr_algorithms: mpfr_t.transpose (rop, op, rnd, ropM),
\* with the right number of arguments and rnd accepted; nlhs is 1 when the
\* caller asks for the status array.
transpose(rop, op, rnd, ropM, nlhs) ==
  /\ pc = "ready"
  /\ LET call(ret, path) == Call("transpose", ropM, rop, ret, path, FALSE, FALSE)
         none == [Cmd(op, NoIdx, 0, {}, {}) EXCEPT !.nlhs = nlhs, !.rnd = rnd]
         ropN == length(rop) \div ropM
         ops == 1 .. (ropM * ropN)
         touched == {SlotRop(rop, ropM, ropN, n) : n \in ops}
                      \cup {SlotOp(op, ropM, ropN, n) : n \in ops}
         \* plhs[0] = mxCreateNumericMatrix (nlhs ? length (&rop) : 1, 1, ...)
         start == [none EXCEPT
                     !.ret = [n \in 1 .. (IF nlhs = 1 THEN length(rop) ELSE 1) |-> 0],
                     !.before = data]
     IN
     IF ~(is_valid(rop, data_size) /\ is_valid(op, data_size))
     THEN MEX_FCN_ERR(call(0, "range"), none)
     ELSE IF ~SameLength(rop, op)
     THEN MEX_FCN_ERR(call(0, "size"), none)
     ELSE IF ~RowsOK(ropM)
     THEN MEX_FCN_ERR(call(0, "rows"), none)
     ELSE IF ropM = 0
     THEN Fault(call(0, "fault"), none)
     ELSE IF \/ data_ptr = NULL
             \/ \E i \in touched : i > data_capacity
             \/ \E i \in touched : Slot(data, data_uninit, i) = Garbage
             \/ \E n \in ops : RetIndex(ropM, ropN, n, nlhs) > Len(start.ret)
     THEN Fault(call(0, "fault"), none)
     ELSE LET st == transposed([d |-> data, c |-> start], data_uninit, data_prec,
                               rop, ropM, ropN, 1)
          IN  /\ data' = st.d
              /\ cmd' = st.c
              /\ last' = call(1, "done")
              /\ throw_error' = 0
              /\ printed' = FALSE
              /\ UNCHANGED <<data_ptr, data_uninit, data_capacity, data_size,
                             free_list_ptr, free_list, free_list_capacity,
                             free_list_size, live, pc, data_prec, VERBOSE>>

\* ----------------------------------------------------------- the system

\* static mpfr_ptr data = NULL; ... static size_t free_list_size = 0;
Init ==
  /\ data_ptr = NULL
  /\ data = << >>
  /\ data_uninit = 0
  /\ data_capacity = 0
  /\ data_size = 0
  /\ free_list_ptr = NULL
  /\ free_list = << >>
  /\ free_list_capacity = 0
  /\ free_list_size = 0
  /\ live = {}
  /\ last = Call("init", 0, NoIdx, 0, "none", FALSE, FALSE)
  /\ pc = "ready"
  /\ throw_error = 0
  /\ cmd = NoCmd
  /\ data_prec = << >>
  /\ VERBOSE = 2
  /\ printed = FALSE

\* The ranges the caller holds and the free entries.
Known == live \cup {free_list[k] : k \in 1 .. Len(free_list)}

\* Arguments of mark_free: any pair of indices up to MaxIdx.
SmallArgs == {idx_t(s, e) : s \in 0 .. MaxIdx, e \in 0 .. MaxIdx}

\* Arguments of mark_free: from the start of a known range to the end of
\* one, and ranges that end one past the pool size.
KnownArgs ==
  {idx_t(r.start, q.end) : r \in Known, q \in Known}
  \cup {idx_t(s, data_size + 1) : s \in {0, 1, data_size + 1}}

\* Every slot of s .. e belongs to a range the caller holds.
RECURSIVE AllLive(_, _)
AllLive(s, e) ==
  IF s > e THEN TRUE
  ELSE \E r \in live : (r.start <= s) /\ (s <= r.end) /\ AllLive(r.end + 1, e)

\* Disciplined use: ranges all of whose slots the caller holds.
LiveArgs ==
  {a \in SmallArgs \cup KnownArgs :
     (1 <= a.start) /\ (a.start <= a.end) /\ AllLive(a.start, a.end)}

\* The first slot of a range the caller holds.
WriteArgs == {idx_t(r.start, r.start) : r \in live}

\* The pool is not at the bounds of the model.
Room(count) == (Cardinality(live) < MaxLive) /\ (data_size + count <= MaxDataSize)

\* Mutant: the error is recorded only when it is printed.
MEX_FCN_ERR_if_verbose(verbose) ==
  [throw_error |-> IF verbose > 0 THEN 1 ELSE 0, printed |-> verbose > 0]

\* MEX_FCN_ERR of gmp_mpfr_interface.h, in mexFunction:
\* do { if (VERBOSE > 0) mexPrintf (...); throw_error = 1; } while (0)
MEX_FCN_ERR_mexFunction(verbose) ==
  [throw_error |-> 1, printed |-> verbose > 0]

\* int throw_error = 0; and no message, as long as no error is found.
NoError == [throw_error |-> 0, printed |-> FALSE]

\* A command of mexFunction that runs no matrix kernel and sets no precision
\* and no verbosity level.
Plain ==
  /\ cmd' = NoCmd
  /\ UNCHANGED <<data_prec, VERBOSE>>

\* Mutant: the allocate command does not report the failure.
allocate_silent(count, oom) ==
  /\ mex_mpfr_allocate(count, oom)
  /\ throw_error' = 0
  /\ printed' = FALSE
  /\ Plain

\* The allocate command of mexFunction, after extract_ui accepted count:
\* if (! mex_mpfr_allocate (count, &idx)) { MEX_FCN_ERR (...); break; }
\* and, past the loop, if (throw_error) mexErrMsgIdAndTxt (...).
allocate(count, oom) ==
  /\ mex_mpfr_allocate(count, oom)
  /\ LET e == IF last'.ret = 0 THEN MEX_FCN_ERR_mexFunction(VERBOSE) ELSE NoError
     IN  (throw_error' = e.throw_error) /\ (printed' = e.printed)
  /\ Plain

\* The set_verbose command of mexFunction, with the right number of
\* arguments: if (extract_si (...) && ((level == 0) || (level == 1)))
\* VERBOSE = (int) level; else MEX_FCN_ERR (...).
set_verbose(level) ==
  /\ pc = "ready"
  /\ LET ok == level \in {0, 1}
         e == IF ok THEN NoError ELSE MEX_FCN_ERR_mexFunction(VERBOSE)
     IN  /\ VERBOSE' = IF ok THEN level ELSE VERBOSE
         /\ throw_error' = e.throw_error
         /\ printed' = e.printed
         /\ last' = Call("set_verbose", level, NoIdx, IF ok THEN 1 ELSE 0,
                         IF ok THEN "set" ELSE "invalid", FALSE, FALSE)
  /\ cmd' = NoCmd
  /\ UNCHANGED <<data_ptr, data, data_uninit, data_capacity, data_size,
                 free_list_ptr, free_list, free_list_capacity, free_list_size,
                 live, pc, data_prec>>

\* A call of mex_mpfr_mark_free; it reports nothing.  mpfr_clear and
\* mpfr_init leave the slots of idx with the default precision.
mark_free(idx, oom, fault) ==
  /\ mex_mpfr_mark_free(idx, oom, fault)
  /\ throw_error' = 0
  /\ printed' = FALSE
  /\ cmd' = NoCmd
  /\ data_prec' = IF last'.path = "freed"
                  THEN [i \in (DOMAIN data_prec) \ (idx.start .. idx.end) |->
                          data_prec[i]]
                  ELSE data_prec
  /\ UNCHANGED VERBOSE

\* static void mpfr_tidy_up (void), registered with mexAtExit: mpfr_clear of
\* data[0 .. data_size - 1], mxFree of both blocks, and every pointer, size
\* and capacity reset.  last.count is the number of mpfr_clear calls and
\* last.capacity is data_capacity when the function was entered.  fault:
\* mpfr_clear of a never initialised variable ends the process (it may also
\* return).  The caller holds no range afterwards.
mpfr_tidy_up(fault) ==
  /\ pc = "ready"
  /\ fault => /\ data_ptr # NULL
              /\ data_size > 0
              /\ TouchesGarbage(data, data_uninit, idx_t(1, data_size))
  /\ IF (data_size > 0 /\ data_ptr = NULL) \/ fault
     THEN \* mpfr_clear through a null pointer or of garbage
          /\ pc' = "crashed"
          /\ last' = Call("tidy_up", 0, NoIdx, 0, "fault", FALSE, FALSE)
          /\ UNCHANGED <<data_ptr, data, data_uninit, data_capacity, data_size,
                         free_list_ptr, free_list, free_list_capacity,
                         free_list_size, live, data_prec>>
     ELSE /\ data_ptr' = NULL
          /\ data' = << >>
          /\ data_uninit' = 0
          /\ data_capacity' = 0
          /\ data_size' = 0
          /\ free_list_ptr' = NULL
          /\ free_list' = << >>
          /\ free_list_capacity' = 0
          /\ free_list_size' = 0
          /\ live' = {}
          /\ data_prec' = << >>
          /\ last' = Call("tidy_up", data_size, NoIdx, 1, "done", FALSE, FALSE)
          /\ UNCHANGED pc
  /\ throw_error' = 0
  /\ printed' = FALSE
  /\ cmd' = NoCmd
  /\ UNCHANGED VERBOSE

Allocate ==
  \E count \in 0 .. MaxCount, oom \in BOOLEAN :
     Room(count) /\ allocate(count, oom)

MarkFree ==
  \E idx \in SmallArgs \cup KnownArgs, oom \in BOOLEAN, fault \in BOOLEAN :
     (free_list_size < MaxAnyFree) /\ mark_free(idx, oom, fault)

MarkFreeLive ==
  \E idx \in LiveArgs, oom \in BOOLEAN, fault \in BOOLEAN :
     (free_list_size < MaxFreeList) /\ mark_free(idx, oom, fault)

SetD ==
  \E idx \in WriteArgs, v \in 1 .. MaxVal, fault \in BOOLEAN :
     set_d(idx, v, fault) /\ throw_error' = 0 /\ printed' = FALSE /\ Plain

\* Any caller: mark_free is given any pair of indices, and ranges the caller holds.
Next == Allocate \/ MarkFree \/ MarkFreeLive

Spec == Init /\ [][Next]_vars

\* A disciplined caller: mark_free is given only slots the caller holds.
NextDisciplined == Allocate \/ MarkFreeLive

SpecDisciplined == Init /\ [][NextDisciplined]_vars

\* The session ends: the handler registered with mexAtExit runs.
TidyUp == \E fault \in BOOLEAN : mpfr_tidy_up(fault)

\* Sessions of disciplined use, each ended by the teardown.
NextTidy == Allocate \/ MarkFreeLive \/ TidyUp

SpecTidy == Init /\ [][NextTidy]_vars

\* Levels given to set_verbose: the two it accepts and one it does not.
SetVerbose == \E level \in 0 .. 2 : set_verbose(level)

\* Commands that can fail, at every verbosity level.
NextVerbose == Allocate \/ SetVerbose

SpecVerbose == Init /\ [][NextVerbose]_vars

\* The pool after 2 * DATA_CHUNK_SIZE + 1 commands allocate (1) and
\* mark_free of every second slot but the last: the caller holds the odd
\* slots and the free list holds the even ones, DATA_CHUNK_SIZE entries that
\* no rule merges, as many as its block has room for.
FullSize == (2 * DATA_CHUNK_SIZE) + 1

InitFull ==
  /\ data_ptr = HEAP
  /\ data = << >>
  /\ data_uninit = 0
  /\ data_capacity = 3 * DATA_CHUNK_SIZE
  /\ data_size = FullSize
  /\ free_list_ptr = HEAP
  /\ free_list = [k \in 1 .. DATA_CHUNK_SIZE |-> idx_t(2 * k, 2 * k)]
  /\ free_list_capacity = DATA_CHUNK_SIZE
  /\ free_list_size = DATA_CHUNK_SIZE
  /\ live = {idx_t((2 * k) - 1, (2 * k) - 1) : k \in 1 .. DATA_CHUNK_SIZE + 1}
  /\ last = Call("init", 0, NoIdx, 0, "none", FALSE, FALSE)
  /\ pc = "ready"
  /\ throw_error = 0
  /\ cmd = NoCmd
  /\ data_prec = << >>
  /\ VERBOSE = 2
  /\ printed = FALSE

\* Requests of 0 .. MaxCount slots, until the caller holds MaxLive ranges
\* more than at the start.
AllocateFull ==
  \E count \in 0 .. MaxCount, oom \in BOOLEAN :
     /\ Cardinality(live) < DATA_CHUNK_SIZE + 1 + MaxLive
     /\ allocate(count, oom)

\* mark_free of the first or of the last range the caller holds, called
\* when the block of the free list has no room left.
MarkFreeFull ==
  \E idx \in {r \in live : (r.start = 1) \/ (r.end = data_size)},
     oom \in BOOLEAN, fault \in BOOLEAN :
     /\ free_list_size = free_list_capacity
     /\ mark_free(idx, oom, fault)

NextFull == AllocateFull \/ MarkFreeFull

SpecFull == InitFull /\ [][NextFull]_vars

\* A call of is_valid on idx: the return value is kept in last.
is_valid_call(idx) ==
  /\ pc = "ready"
  /\ last' = Call("is_valid", 0, idx,
                  IF is_valid(idx, data_size) THEN 1 ELSE 0, "checked", FALSE, FALSE)
  /\ UNCHANGED <<data_ptr, data, data_uninit, data_capacity, data_size,
                 free_list_ptr, free_list, free_list_capacity, free_list_size,
                 live, pc, throw_error, cmd, data_prec, VERBOSE, printed>>

IsValid == \E idx \in SmallArgs \cup KnownArgs : is_valid_call(idx)

\* Pools of every size up to MaxDataSize, and is_valid asked about ranges
\* inside, across and outside of them.
NextValid == Allocate \/ IsValid

SpecValid == Init /\ [][NextValid]_vars

\* A disciplined caller who stores values in the ranges held.
NextContent == Allocate \/ MarkFreeLive \/ SetD

SpecContent == Init /\ [][NextContent]_vars

\* A pool of MatSlots slots after allocate (MatSlots) and set_d commands:
\* every slot is as mpfr_init left it or holds a stored number.
InitMatrix ==
  /\ data_ptr = HEAP
  /\ data \in UNION {[S -> {Num(v) : v \in 1 .. MaxVal}] : S \in SUBSET (1 .. MatSlots)}
  /\ data_uninit = 0
  /\ data_capacity = DATA_CHUNK_SIZE
  /\ data_size = MatSlots
  /\ free_list_ptr = NULL
  /\ free_list = << >>
  /\ free_list_capacity = 0
  /\ free_list_size = 0
  /\ live = {idx_t(1, MatSlots)}
  /\ last = Call("init", 0, NoIdx, 0, "none", FALSE, FALSE)
  /\ pc = "ready"
  /\ throw_error = 0
  /\ cmd = NoCmd
  /\ data_prec = << >>
  /\ VERBOSE = 2
  /\ printed = FALSE

\* Operands of the matrix commands: every range of the pool, one that starts
\* at 0 and one that ends past the pool size.
MatArgs ==
  {r \in [start : 1 .. MatSlots, end : 1 .. MatSlots] : r.start <= r.end}
    \cup {idx_t(0, 1), idx_t(MatSlots, MatSlots + 1)}

\* Strategy ids: the sequential strategies and one without a case.
MatStrategies == {0} \cup Sequential

\* One matrix command is run on each pool.
MatRoom == last.op = "init"

Mtimes ==
  \E C \in MatArgs, A \in MatArgs, B \in MatArgs,
     M \in 0 .. MatRows, strategy \in MatStrategies :
       MatRoom /\ mtimes(C, A, B, "RNDZ", M, strategy, 1)

Transpose ==
  \E rop \in MatArgs, op \in MatArgs, ropM \in 0 .. MatRows :
     MatRoom /\ transpose(rop, op, "RNDZ", ropM, 1)

NextMatrix == Mtimes \/ Transpose

SpecMatrix == InitMatrix /\ [][NextMatrix]_vars

\* A pool of KerSlots slots after allocate (KerSlots), set_prec and set_d
\* commands: every slot holds 1, but for at most KerOdd slots that hold 2 or
\* are not a number; the slots have a precision of MatPrec bits.
InitKernel ==
  /\ data_ptr = HEAP
  /\ data \in {d \in UNION {[S -> {Num(1), Num(2)}] : S \in SUBSET (1 .. KerSlots)} :
                 Cardinality({i \in 1 .. KerSlots :
                                (i \notin DOMAIN d) \/ (d[i] # Num(1))}) <= KerOdd}
  /\ data_uninit = 0
  /\ data_capacity = DATA_CHUNK_SIZE
  /\ data_size = KerSlots
  /\ free_list_ptr = NULL
  /\ free_list = << >>
  /\ free_list_capacity = 0
  /\ free_list_size = 0
  /\ live = {idx_t(1, KerSlots)}
  /\ last = Call("init", 0, NoIdx, 0, "none", FALSE, FALSE)
  /\ pc = "ready"
  /\ throw_error = 0
  /\ cmd = NoCmd
  /\ data_prec = [i \in 1 .. KerSlots |-> MatPrec]
  /\ VERBOSE = 2
  /\ printed = FALSE

\* The shapes M x N, M x K and K x N whose operands fit the pool side by
\* side, and the ranges of C, A and B for a shape.
KerShapes ==
  {s \in [M : 1 .. KerDim, N : 1 .. KerDim, K : 1 .. KerDim] :
     (s.M * s.N) + (s.M * s.K) + (s.K * s.N) <= KerSlots}

KerC(s) == idx_t(1, s.M * s.N)
KerA(s) == idx_t((s.M * s.N) + 1, (s.M * s.N) + (s.M * s.K))
KerB(s) == idx_t((s.M * s.N) + (s.M * s.K) + 1,
                 (s.M * s.N) + (s.M * s.K) + (s.K * s.N))

\* Strategy ids: those of the switch, and 0, 8 and 9.
KerStrategies == 0 .. 9

MatRnd == {"RNDZ", "RNDU"}

Workers == 1 .. MaxWorkers

Multiply ==
  \E s \in KerShapes, strategy \in KerStrategies, nlhs \in {0, 1}, rnd \in MatRnd :
     MatRoom /\ mtimes(KerC(s), KerA(s), KerB(s), rnd, s.M, strategy, nlhs)

Worker == \E w \in Workers, t \in DOMAIN cmd.pos : worker(w, t)

NextKernel == Multiply \/ Worker

SpecKernel == InitKernel /\ [][NextKernel]_vars

\* Three ranges of TrLen slots each, side by side.
TrX == idx_t(1, TrLen)
TrT == idx_t(TrLen + 1, 2 * TrLen)
TrY == idx_t((2 * TrLen) + 1, 3 * TrLen)

\* A pool of 3 * TrLen slots after allocate, set_prec and set_d commands: the
\* slots of TrX hold 1 or 3, the others are as mpfr_init left them; the
\* slots of TrT have the default precision or MatPrec bits.
InitTranspose ==
  /\ data_ptr = HEAP
  /\ data \in [TrX.start .. TrX.end -> {Num(1), Num(3)}]
  /\ data_uninit = 0
  /\ data_capacity = DATA_CHUNK_SIZE
  /\ data_size = 3 * TrLen
  /\ free_list_ptr = NULL
  /\ free_list = << >>
  /\ free_list_capacity = 0
  /\ free_list_size = 0
  /\ live = {idx_t(1, 3 * TrLen)}
  /\ last = Call("init", 0, NoIdx, 0, "none", FALSE, FALSE)
  /\ pc = "ready"
  /\ throw_error = 0
  /\ cmd = NoCmd
  /\ data_prec \in {<< >>, [i \in TrT.start .. TrT.end |-> MatPrec]}
  /\ VERBOSE = 2
  /\ printed = FALSE

\* TrX is transposed into TrT, and then TrT into TrY, with any row counts.
TransposeXT ==
  \E ropM \in 1 .. TrLen, rnd \in MatRnd, nlhs \in {0, 1} :
     (last.op = "init") /\ transpose(TrT, TrX, rnd, ropM, nlhs)

TransposeTY ==
  \E ropM \in 1 .. TrLen, rnd \in MatRnd, nlhs \in {0, 1} :
     (last.op = "transpose") /\ (last.idx = TrT) /\ transpose(TrY, TrT, rnd, ropM, nlhs)

NextTranspose == TransposeXT \/ TransposeTY

SpecTranspose == InitTranspose /\ [][NextTranspose]_vars

\* Request sizes that reach the chunk boundaries: one slot less than a chunk,
\* a whole chunk, and a request that needs three chunks at once.
ChunkCounts == {DATA_CHUNK_SIZE - 1, DATA_CHUNK_SIZE, 2 * DATA_CHUNK_SIZE + 1}

RoomChunk(count) ==
  /\ Cardinality(live) < MaxChunkLive
  /\ data_size + count <= MaxChunks * DATA_CHUNK_SIZE

AllocateChunk ==
  \E count \in ChunkCounts, oom \in BOOLEAN :
     RoomChunk(count) /\ allocate(count, oom)

\* mark_free of a whole range the caller holds.
MarkFreeWhole ==
  \E idx \in live, oom \in BOOLEAN, fault \in BOOLEAN :
     (free_list_size < MaxFreeList) /\ mark_free(idx, oom, fault)

\* A disciplined caller whose requests make the pool grow, and who stores values.
NextGrowth == AllocateChunk \/ MarkFreeWhole \/ SetD

SpecGrowth == Init /\ [][NextGrowth]_vars

\* ------------------------------------------------------------ properties

\* The ranges r and q share a slot.
Overlap(r, q) == (r.start <= q.end) /\ (q.start <= r.end)

\* The step is a call of mex_mpfr_allocate, of mex_mpfr_mark_free.
AllocateStep == last'.op = "allocate"
MarkFreeStep == last'.op = "mark_free"

\* C1: under disciplined use the ranges the caller holds are pairwise disjoint
\* in every reachable state, and a successful allocate returns a range that
\* shares no slot with a range the caller holds at the call.
C1_LiveRangesDisjoint ==
  /\ [](\A r \in live : \A q \in live : (r # q) => ~Overlap(r, q))
  /\ [][(AllocateStep /\ last'.ret = 1)
          => \A r \in live : ~Overlap(r, last'.idx)]_vars

\* C1: an allocate took its range from a free entry while the caller held
\* two other ranges.
C1_Witness ==
  /\ last.op = "allocate"
  /\ last.ret = 1
  /\ last.path = "reuse"
  /\ Cardinality(live) = 3

\* C2: after any calls of allocate and of mark_free with valid arguments, an
\* allocate of count >= 1 slots whose storage request does not fail succeeds
\* with a valid range of count slots.
C2_AllocateSucceeds ==
  (last.op = "allocate" /\ last.count >= 1 /\ last.path \in {"reuse", "new"})
    => /\ last.ret = 1
       /\ is_valid(last.idx, data_size)
       /\ length(last.idx) = last.count

\* C3: no slot is covered by two entries of the free list, whatever valid
\* ranges mark_free was given.
C3_EntriesDisjoint ==
  \A i \in 1 .. Len(free_list) : \A j \in 1 .. Len(free_list) :
     (i # j) => ~Overlap(free_list[i], free_list[j])

\* C4: once mark_free has returned, and after any allocate that follows, no
\* entry of the free list ends at the pool size and no entry starts right
\* after another one ends.
C4_Compacted ==
  /\ \A k \in 1 .. Len(free_list) : free_list[k].end # data_size
  /\ \A i \in 1 .. Len(free_list) : \A j \in 1 .. Len(free_list) :
        free_list[i].end + 1 # free_list[j].start

\* C5: an allocate that reports failure leaves the pool size, the pool
\* capacity, the slot storage and the free list as they were.
C5_FailedAllocateChangesNothing ==
  [][(AllocateStep /\ last'.ret = 0)
       => UNCHANGED <<data_ptr, data, data_uninit, data_capacity, data_size,
                      free_list_ptr, free_list, free_list_capacity,
                      free_list_size>>]_vars

\* The slots the entries of the free list fl cover.
FreeSlots(fl) ==
  UNION {fl[k].start .. fl[k].end : k \in 1 .. Len(fl)}

\* The step is the second allocate of the sequence allocate(n) -> r,
\* mark_free(r), allocate(n), with mark_free run to its end.
ReallocateStep ==
  /\ last.op = "mark_free"
  /\ last.path = "freed"
  /\ last.fresh
  /\ AllocateStep
  /\ last'.count = length(last.idx)

EarlierFit(r, n) ==
  \E p \in 1 .. Len(free_list) :
     /\ free_list[p] = r
     /\ \E q \in 1 .. (p - 1) : n <= length(free_list[q])

C8_NewAllocation ==
  [][(AllocateStep /\ last'.count >= 1 /\ last'.path # "oom"
        /\ \A k \in 1 .. Len(free_list) : length(free_list[k]) < last'.count)
       => /\ last'.ret = 1
          /\ last'.idx.start = data_size + 1
          /\ last'.idx.end = data_size + last'.count
          /\ data_size' = data_size + last'.count
          /\ free_list' = free_list
          /\ free_list_size' = free_list_size]_vars

\* C8: an allocate took new slots at the tail while the free list held an
\* entry too short for it.
C8_Witness ==
  /\ last.op = "allocate"
  /\ last.path = "new"
  /\ last.ret = 1
  /\ free_list # << >>
  /\ last.idx.end = data_size

\* The largest slot up to size that is not in the set free, 0 if there is
\* none.
LastUsed(free, size) ==
  CHOOSE s \in 0 .. size :
     /\ (s = 0) \/ (s \notin free)
     /\ \A t \in (s + 1) .. size : t \in free

\* C9: a mark_free of a valid range that ends at the pool size while the free
\* list is empty leaves the free list empty and the pool size at the start of
\* the range - 1; in general the pool size drops to the last slot that is
\* neither in the range nor in an entry, every entry above it is removed, and
\* the slots of the entries below it stay free.
C9_TailShrink ==
  [][(MarkFreeStep /\ last'.path = "freed")
       => LET idx == last'.idx
              free == FreeSlots(free_list) \cup (idx.start .. idx.end)
              top == LastUsed(free, data_size)
          IN  /\ (free_list = << >> /\ idx.end = data_size)
                   => (free_list' = << >> /\ data_size' = idx.start - 1)
              /\ data_size' = top
              /\ \A k \in 1 .. Len(free_list') : free_list'[k].end < top
              /\ FreeSlots(free_list') = free \cap (1 .. top)]_vars

\* C9: a mark_free at the tail took the pool size below the start of its
\* range: the shrink went on to an entry it exposed.
C9_Witness ==
  /\ last.op = "mark_free"
  /\ last.path = "freed"
  /\ last.idx.start >= 2
  /\ data_size < last.idx.start - 1

\* The entries of the free list that neighbour the range idx.
Neighbours(idx) ==
  {k \in 1 .. Len(free_list) :
     (free_list[k].end + 1 = idx.start) \/ (idx.end + 1 = free_list[k].start)}

\* The range from the least start to the greatest end of idx and the entries
\* in adj.
Span(idx, adj) ==
  idx_t(Min({idx.start} \cup {free_list[k].start : k \in adj}),
        -Min({-idx.end} \cup {-free_list[k].end : k \in adj}))

\* C10: when mark_free appends a range next to an entry [a,b] or [b+1,c] of
\* the free list, on either side of it, and the joined range ends below the
\* pool size, compaction puts the joined range in the place of the first
\* neighbour and removes the other one: the free slots are the old ones and
\* those of the range, the number of entries drops by one for every
\* neighbour, and the pool size stays.
C10_Merge ==
  [][(MarkFreeStep /\ last'.path = "freed"
        /\ Neighbours(last'.idx) # {}
        /\ Span(last'.idx, Neighbours(last'.idx)).end < data_size)
       => LET idx == last'.idx
              adj == Neighbours(idx)
              first == Min(adj)
              kept == (1 .. Len(free_list)) \ (adj \ {first})
          IN  /\ Len(free_list') = Len(free_list) + 1 - Cardinality(adj)
              /\ Len(free_list') = Cardinality(kept)
              /\ \A k \in kept :
                   free_list'[Cardinality({m \in kept : m <= k})]
                     = IF k = first THEN Span(idx, adj) ELSE free_list[k]
              /\ FreeSlots(free_list')
                   = FreeSlots(free_list) \cup (idx.start .. idx.end)
              /\ data_size' = data_size]_vars

\* C10: a mark_free joined its range with an entry below it and an entry
\* above it.
C10_Witness ==
  /\ last.op = "mark_free"
  /\ last.path = "freed"
  /\ \E k \in 1 .. Len(free_list) :
       /\ free_list[k].start < last.idx.start
       /\ last.idx.end < free_list[k].end
       /\ free_list[k].end < data_size

\* C11: a free list that free_list_compress has left, at the end of a
\* mark_free, is a fixed point of it: run again, free_list_compress returns the
\* same entries in the same order and the same pool size.
C11_CompactionIdempotent ==
  (last.op = "mark_free" /\ last.path = "freed")
    => LET again == free_list_compress(free_list, data_size)
       IN  /\ Len(again.free_list) = Len(free_list)
           /\ \A k \in 1 .. Len(free_list) : again.free_list[k] = free_list[k]
           /\ again.data_size = data_size

\* C11: a mark_free whose compaction fired its rules more than once, a merge
\* on both sides of the range, and left two entries or more.
C11_Witness ==
  /\ last.op = "mark_free"
  /\ last.path = "freed"
  /\ Len(free_list) >= 2
  /\ \E k \in 1 .. Len(free_list) :
       /\ free_list[k].start < last.idx.start
       /\ last.idx.end < free_list[k].end

\* C12: in every reachable state the pool size is at most the pool capacity
\* and the capacity is a multiple of DATA_CHUNK_SIZE; an allocate that has to
\* grow takes the least capacity, old capacity + k chunks, that holds the old
\* size + count; and no call lowers the capacity.
C12_GrowthBookkeeping ==
  /\ [](data_size <= data_capacity /\ data_capacity % DATA_CHUNK_SIZE = 0)
  /\ [][data_capacity' >= data_capacity]_vars
  /\ [][(AllocateStep /\ last'.path = "new"
           /\ data_size + last'.count > data_capacity)
          => /\ data_capacity' >= data_size + last'.count
             /\ data_capacity' - DATA_CHUNK_SIZE < data_size + last'.count
             /\ (data_capacity' - data_capacity) % DATA_CHUNK_SIZE = 0]_vars

\* C12: an allocate in a pool of one chunk grew the capacity by two chunks at
\* once.
C12_Witness ==
  /\ last.op = "allocate"
  /\ last.path = "new"
  /\ last.count = 2 * DATA_CHUNK_SIZE + 1
  /\ data_size > last.count
  /\ data_capacity = 3 * DATA_CHUNK_SIZE

\* C13: a successful allocate, also one that grows the capacity, leaves the
\* value of every slot up to the old pool size as it was (no stored value
\* changes and no slot becomes storage that was never initialised), and every
\* range that is_valid accepted before the call is accepted after it.
C13_GrowthPreserves ==
  [][(AllocateStep /\ last'.ret = 1)
       => /\ data_uninit' = data_uninit
          /\ \A i \in (DOMAIN data) \cup (DOMAIN data') :
               (i <= data_size)
                 => Slot(data', data_uninit', i) = Slot(data, data_uninit, i)
          /\ \A r \in SmallArgs \cup KnownArgs :
               is_valid(r, data_size) => is_valid(r, data_size')]_vars

\* C14: a mark_free of a valid range whose storage request does not fail
\* leaves every slot of the range in the state of mpfr_init (not a number,
\* default precision) and every other slot of the pool as it was; the free
\* list and the pool size are those compaction makes of the old list with the
\* range appended as its last entry.
C14_MarkFreeResets ==
  [][(MarkFreeStep /\ ~last'.oom
        /\ 1 <= last'.idx.start /\ last'.idx.start <= last'.idx.end
        /\ last'.idx.end <= data_size)
       => LET idx == last'.idx
              c == free_list_compress(Append(free_list, idx), data_size)
          IN  /\ \A i \in idx.start .. idx.end :
                   Slot(data', data_uninit', i) = NaN
              /\ \A i \in (1 .. data_size) \ (idx.start .. idx.end) :
                   Slot(data', data_uninit', i) = Slot(data, data_uninit, i)
              /\ free_list' = c.free_list
              /\ free_list_size' = Len(c.free_list)
              /\ data_size' = c.data_size]_vars

\* C14: a mark_free reset a range of a pool in which a slot outside the range
\* holds a stored number, and left the range in the free list.
C14_Witness ==
  /\ last.op = "mark_free"
  /\ last.path = "freed"
  /\ \E k \in 1 .. Len(free_list) :
       free_list[k].start <= last.idx.start /\ last.idx.end <= free_list[k].end
  /\ \E i \in DOMAIN data :
       /\ data[i].kind = "Num"
       /\ (i < last.idx.start) \/ (last.idx.end < i)

\* C15: a mark_free of a range with start = 0, start > end or end above the
\* pool size changes nothing: pool size, pool capacity, slot values, and the
\* entries, size and capacity of the free list stay as they were.
C15_InvalidMarkFreeNoOp ==
  [][(MarkFreeStep
        /\ \/ last'.idx.start = 0
           \/ last'.idx.start > last'.idx.end
           \/ last'.idx.end > data_size)
       => UNCHANGED pool]_vars

\* C15: a mark_free was given a range that ends above the pool size, in a
\* pool with a free entry.
C15_Witness ==
  /\ last.op = "mark_free"
  /\ last.path = "invalid"
  /\ 1 <= last.idx.start
  /\ last.idx.start <= last.idx.end
  /\ last.idx.end > data_size
  /\ free_list # << >>

\* C16: allocate with count = 0 fails in every state and changes neither the
\* free list, of which every entry would hold 0 slots, nor the pool size or
\* capacity; the allocate command ends by raising the error.
C16_AllocateZeroFails ==
  [][(AllocateStep /\ last'.count = 0)
       => /\ last'.ret = 0
          /\ throw_error' = 1
          /\ UNCHANGED pool]_vars

\* C16: allocate (0) failed in a pool with a free entry.
C16_Witness ==
  /\ last.op = "allocate"
  /\ last.count = 0
  /\ last.ret = 0
  /\ throw_error = 1
  /\ free_list # << >>

\* C17: is_valid returns true exactly for the ranges with
\* 1 <= start <= end <= pool size, and the call changes nothing.
C17_IsValid ==
  [][(last'.op = "is_valid")
       => /\ (last'.ret = 1)
               <=> /\ 1 <= last'.idx.start
                   /\ last'.idx.start <= last'.idx.end
                   /\ last'.idx.end <= data_size
          /\ UNCHANGED pool]_vars

\* C17: is_valid accepted the range of the whole pool, two slots or more.
C17_Witness ==
  /\ last.op = "is_valid"
  /\ last.ret = 1
  /\ last.idx.start = 1
  /\ last.idx.end = data_size
  /\ data_size >= 2

\* The operands of the last matrix command are ranges of the pool.
MtimesRanges ==
  /\ last'.op = "mtimes"
  /\ is_valid(last'.idx, data_size)
  /\ is_valid(cmd'.A, data_size)
  /\ is_valid(cmd'.B, data_size)

TransposeRanges ==
  /\ last'.op = "transpose"
  /\ is_valid(last'.idx, data_size)
  /\ is_valid(cmd'.A, data_size)

\* The command raised an error and read and wrote no slot: the pool is as it
\* was and the process goes on.
Refused ==
  /\ throw_error' = 1
  /\ last'.ret = 0
  /\ cmd'.read = {}
  /\ cmd'.written = {}
  /\ pc' = "ready"
  /\ UNCHANGED pool

MtimesDone == (last.op = "mtimes") /\ (last.path = "done")
RowsM == last.count
ColsN == length(last.idx) \div last.count
DepthK == length(cmd.A) \div last.count

\* The elements C[i,j], A[i,k] and B[k,j], stored by columns, in contents d.
ElemC(d, i, j) == Slot(d, data_uninit, last.idx.start + (RowsM * j) + i)
ElemA(d, i, k) == Slot(d, data_uninit, cmd.A.start + (RowsM * k) + i)
ElemB(d, k, j) == Slot(d, data_uninit, cmd.B.start + (DepthK * j) + k)

\* The sum of A[i,k] * B[k,j] over k < n, in exact arithmetic.
RECURSIVE SumAB(_, _, _, _)
SumAB(d, i, j, n) ==
  IF n = 0 THEN 0
  ELSE SumAB(d, i, j, n - 1) + (ElemA(d, i, n - 1).d * ElemB(d, n - 1, j).d)

\* C21: after a multiply by strategy 1 or 2 on pairwise disjoint operands
\* whose elements are numbers, computed exactly, every C[i,j] is the sum over
\* k < K of A[i,k] * B[k,j], whatever C held before, and A and B are as before.
C21_MultiplyResult ==
  ( /\ MtimesDone
    /\ cmd.strategy \in Sequential
    /\ ~Overlap(last.idx, cmd.A)
    /\ ~Overlap(last.idx, cmd.B)
    /\ ~Overlap(cmd.A, cmd.B)
    /\ \A s \in (cmd.A.start .. cmd.A.end) \cup (cmd.B.start .. cmd.B.end) :
          (Slot(cmd.before, data_uninit, s).kind = "Num") /\ (Prec(data_prec, s) = DefaultPrec)
    /\ \A s \in last.idx.start .. last.idx.end : Prec(data_prec, s) = DefaultPrec )
  => /\ \A i \in 0 .. RowsM - 1, j \in 0 .. ColsN - 1 :
          ElemC(data, i, j) = Num(SumAB(cmd.before, i, j, DepthK))
     /\ \A s \in (cmd.A.start .. cmd.A.end) \cup (cmd.B.start .. cmd.B.end) :
          Slot(data, data_uninit, s) = Slot(cmd.before, data_uninit, s)

\* The value of C[i,j] and the status of the element after the rounds
\* k = 0 .. n - 1 of fused multiply-add, begun from contents d.
RECURSIVE Accumulated(_, _, _, _)
Accumulated(d, i, j, n) ==
  IF n = 0 THEN [v |-> ElemC(d, i, j), t |-> 0]
  ELSE LET a == Accumulated(d, i, j, n - 1)
           r == mpfr_fma(ElemB(d, n - 1, j), ElemA(d, i, n - 1), a.v,
                         Prec(data_prec, last.idx.start + (RowsM * j) + i), cmd.rnd)
       IN  [v |-> r.v, t |-> OrInt(a.t, r.t)]

\* C22: whichever of the strategies 1 to 6 ran, and in whatever order its
\* workers took their steps, C[i,j] ends as the fused multiply-adds for
\* k = 0, ..., K - 1 in this order leave it, and the status of each element,
\* when the status array was asked for, is the one these rounds give: the
\* six strategies end with the same C and the same status values.
C22_StrategiesAgree ==
  (MtimesDone /\ (cmd.strategy \in Sequential \cup Parallel))
  => \A i \in 0 .. RowsM - 1, j \in 0 .. ColsN - 1 :
        /\ ElemC(data, i, j) = Accumulated(cmd.before, i, j, DepthK).v
        /\ (cmd.nlhs = 1) =>
             (cmd.ret[(RowsM * j) + i + 1] = Accumulated(cmd.before, i, j, DepthK).t)

\* A parallel strategy ended a multiply with K = 2 in which two workers each
\* computed an element, one of them inexact.
C22_Witness ==
  /\ MtimesDone
  /\ cmd.strategy \in Parallel
  /\ DepthK = 2
  /\ cmd.nlhs = 1
  /\ \E a \in cmd.access, b \in cmd.access : (a[1] # b[1]) /\ (a[4] = "w") /\ (b[4] = "w")
  /\ \E n \in DOMAIN cmd.ret : cmd.ret[n] # 0
  /\ \E n \in DOMAIN cmd.ret : cmd.ret[n] = 0

\* C23: while and after a strategy with a parallel loop runs, an element of
\* C that one worker wrote was neither written nor read by another worker;
\* at the end every element of C has been written.
C23_OneWriterPerElement ==
  ((last.op = "mtimes") /\ (cmd.strategy \in Parallel \cup {RowCopy}))
  => /\ \A a \in cmd.access, b \in cmd.access :
          ( /\ a[2] = "data"
            /\ b[2] = "data"
            /\ a[3] = b[3]
            /\ a[3] \in last.idx.start .. last.idx.end
            /\ a[4] = "w" )
          => (a[1] = b[1])
     /\ MtimesDone => (\A s \in last.idx.start .. last.idx.end :
                          \E a \in cmd.access : (a[2] = "data") /\ (a[3] = s) /\ (a[4] = "w"))

\* Two workers have each written an element of C, in a loop of strategies
\* 3 to 6 and in the dot-product loop of strategy 7.
C23_Witness ==
  /\ MtimesDone
  /\ cmd.strategy \in {3, RowCopy}
  /\ RowsM = 2
  /\ \E a \in cmd.access, b \in cmd.access :
        /\ a[1] # b[1]
        /\ a[2] = "data" /\ b[2] = "data"
        /\ a[4] = "w" /\ b[4] = "w"

\* C24: a multiply of well-shaped operands with a strategy id that has no
\* case in the build (0, 8 without the accelerated backend, 9) raises the
\* invalid-strategy error; no slot is read or written.
C24_InvalidStrategy ==
  [][ ( /\ last'.op = "mtimes"
        /\ last.op = "init"
        /\ cmd'.strategy \notin 1 .. 7
        /\ MtimesRanges
        /\ last'.count >= 1
        /\ length(last'.idx) % last'.count = 0
        /\ length(cmd'.A) % last'.count = 0
        /\ length(cmd'.B) = (length(cmd'.A) \div last'.count)
                              * (length(last'.idx) \div last'.count) )
      => (Refused /\ (last'.path = "strategy")) ]_vars

\* Strategy 8 was refused for operands a multiply would have changed.
C24_Witness ==
  /\ last.op = "mtimes"
  /\ last.path = "strategy"
  /\ cmd.strategy = 8
  /\ throw_error = 1
  /\ \A s \in 1 .. 3 : Slot(data, data_uninit, s).kind = "Num"

\* C30: during a multiply by a strategy with a parallel loop no entry of the
\* status array is written by two different workers, whether the caller
\* asked for the status of every element or for a single status.
C30_StatusOneWriter ==
  ((last.op = "mtimes") /\ (cmd.strategy \in Parallel \cup {RowCopy}))
  => \A a \in cmd.access, b \in cmd.access :
        ((a[2] = "ret") /\ (b[2] = "ret") /\ (a[3] = b[3])) => (a[1] = b[1])

\* The last command was a transpose that ran to its end on ranges that do
\* not overlap and whose length is ropM * ropN.
TransposeDone ==
  /\ last.op = "transpose"
  /\ last.path = "done"
  /\ ~Overlap(last.idx, cmd.A)
  /\ length(last.idx) % last.count = 0

\* What mpfr_set makes of element n (counted from 0) of op, as it was before
\* the command, when it is copied to element m of rop.
Copied(m, n) ==
  mpfr_set(Slot(cmd.before, data_uninit, cmd.A.start + n),
           Prec(data_prec, last.idx.start + m), cmd.rnd)

\* C25: after a transpose of op into a disjoint rop of ropM * ropN slots,
\* rop[j * ropM + i] is the copy of op[i * ropN + j] for every i < ropM and
\* j < ropN, every slot of rop was written by exactly one mpfr_set and op is
\* as before.
C25_TransposePlacement ==
  TransposeDone
  => LET ropM == last.count
         ropN == length(last.idx) \div last.count
     IN  /\ \A i \in 0 .. ropM - 1, j \in 0 .. ropN - 1 :
               Slot(data, data_uninit, last.idx.start + (j * ropM) + i)
                 = Copied((j * ropM) + i, (i * ropN) + j).v
         /\ cmd.written = last.idx.start .. last.idx.end
         /\ cmd.calls = length(last.idx)
         /\ \A s \in cmd.A.start .. cmd.A.end :
               Slot(data, data_uninit, s) = Slot(cmd.before, data_uninit, s)

\* A 2-row transpose of six slots that are not all alike has ended.
C25_Witness ==
  /\ TransposeDone
  /\ last.count = 2
  /\ length(last.idx) = 6
  /\ Slot(data, data_uninit, last.idx.start + 1) # Slot(cmd.before, data_uninit, cmd.A.start + 1)
  /\ Slot(data, data_uninit, last.idx.start + 1) = Slot(cmd.before, data_uninit, cmd.A.start + 3)

\* C26: x transposed into t with M rows and then t into y with N rows, for
\* disjoint ranges of M * N slots of the same precision, leaves y equal to x
\* slot by slot.
C26_TransposeRoundTrip ==
  [][ ( /\ last.op = "transpose" /\ last.path = "done"
        /\ last'.op = "transpose" /\ last'.path = "done"
        /\ last.idx = cmd'.A
        /\ ~Overlap(last.idx, cmd.A)
        /\ ~Overlap(last'.idx, cmd.A)
        /\ ~Overlap(last'.idx, cmd'.A)
        /\ last.count * last'.count = length(last.idx)
        /\ \A s \in (last.idx.start .. last.idx.end) \cup (last'.idx.start .. last'.idx.end) :
              Prec(data_prec, s) = DefaultPrec )
      => \A n \in 0 .. length(last.idx) - 1 :
            Slot(data', data_uninit, last'.idx.start + n)
              = Slot(data', data_uninit, cmd.A.start + n) ]_vars

\* Six slots, not all alike, went through a transpose with 2 rows and one
\* with 3 rows.
C26_Witness ==
  /\ last.op = "transpose"
  /\ last.path = "done"
  /\ last.idx = TrY
  /\ cmd.A = TrT
  /\ last.count = 3
  /\ \A n \in 0 .. TrLen - 1 :
        Slot(data, data_uninit, TrY.start + n) = Slot(data, data_uninit, TrX.start + n)
  /\ Slot(data, data_uninit, TrT.start + 1) # Slot(data, data_uninit, TrX.start + 1)
  /\ Slot(data, data_uninit, TrT.start + 1) = Slot(data, data_uninit, TrX.start + 3)
  /\ data_prec = << >>

\* C27: after a transpose that was asked for the status of every element,
\* the entry of the status array at the place j * ropM + i of an element of
\* rop holds the value mpfr_set returned for this element.
C27_TransposeStatus ==
  (TransposeDone /\ (cmd.nlhs = 1))
  => LET ropM == last.count
         ropN == length(last.idx) \div last.count
     IN  \A i \in 0 .. ropM - 1, j \in 0 .. ropN - 1 :
            cmd.ret[(j * ropM) + i + 1] = Copied((j * ropM) + i, (i * ropN) + j).t

\* C28: at every verbosity level, 0 included, a command that finds an error
\* sets throw_error, on which mexFunction raises the error when the command
\* ends; the level decides only whether the message is printed.
C28_ErrorAlwaysReported ==
  [][ ( \/ AllocateStep /\ (last'.ret = 0)
        \/ (last'.op = "set_verbose") /\ (last'.path = "invalid") )
      => /\ throw_error' = 1
         /\ printed' <=> (VERBOSE > 0)
         /\ VERBOSE' = VERBOSE ]_vars

\* With VERBOSE = 0 an allocate failed: nothing was printed and the error
\* was raised.
C28_Witness ==
  /\ VERBOSE = 0
  /\ last.op = "allocate"
  /\ last.ret = 0
  /\ throw_error = 1
  /\ ~printed

\* C29: after mpfr_tidy_up every slot below the capacity held just before
\* it (the slots mpfr_init was called on) was passed to mpfr_clear, and the
\* pool's capacity and size and the free list's capacity and size are 0.
C29_TeardownComplete ==
  ((last.op = "tidy_up") /\ (last.path = "done"))
    => /\ \A i \in 1 .. last.capacity : i \in 1 .. last.count
       /\ data_capacity = 0
       /\ data_size = 0
       /\ free_list_capacity = 0
       /\ free_list_size = 0

\* The copy regions of strategy 7 with M > 1: region 2 + 2i copies row i.
CopyPhases == {2 + (2 * i) : i \in 0 .. RowsM - 1}

\* C31: in strategy 7 with M > 1, a step that reads the row buffer for the
\* dot products of row i is taken when all K copies of row i have been made
\* and the buffer holds row i of A; a step that copies an element of row
\* i + 1 is taken when every dot product of row i has stored its C[i,j]; and
\* within one copy loop a slot of the buffer is written by one worker.
C31_CopyThenDot ==
  [][ ((pc = "mmm") /\ (cmd.strategy = RowCopy) /\ (RowsM > 1))
      => /\ \A a \in cmd'.access \ cmd.access :
               ((a[2] = "Ai") /\ (a[4] = "r"))
               => \A k \in 1 .. DepthK :
                     /\ \E b \in cmd.access :
                           /\ b[2] = "Ai"
                           /\ b[3] = k
                           /\ b[4] = "w"
                           /\ b[5] = a[5] - 1
                     /\ cmd.Ai[k] = mpfr_set(ElemA(data, (a[5] - 3) \div 2, k - 1),
                                             DefaultPrec, cmd.rnd).v
         /\ \A a \in cmd'.access \ cmd.access :
               ((a[2] = "Ai") /\ (a[4] = "w") /\ (a[5] \in CopyPhases) /\ (a[5] > 2))
               => \A j \in 0 .. ColsN - 1 :
                     \E b \in cmd.access :
                        /\ b[2] = "data"
                        /\ b[3] = last.idx.start + (RowsM * j) + ((a[5] - 4) \div 2)
                        /\ b[4] = "w"
         /\ \A a \in cmd'.access, b \in cmd'.access :
               ( /\ a[2] = "Ai" /\ b[2] = "Ai"
                 /\ a[4] = "w" /\ b[4] = "w"
                 /\ a[3] = b[3]
                 /\ a[5] = b[5]
                 /\ a[5] \in CopyPhases )
               => (a[1] = b[1]) ]_vars

\* Strategy 7 ran to its end on a 2 x 2 by 2 x 1 product whose second row
\* was copied by two workers, one slot each, and then read for the dot
\* product by a worker that had not copied all of it.
C31_Witness ==
  /\ MtimesDone
  /\ cmd.strategy = RowCopy
  /\ RowsM = 2 /\ DepthK = 2
  /\ \E a \in cmd.access, b \in cmd.access :
        /\ a[2] = "Ai" /\ b[2] = "Ai"
        /\ a[4] = "w" /\ b[4] = "w"
        /\ a[5] = 4 /\ b[5] = 4
        /\ a[1] # b[1]
  /\ \E a \in cmd.access : (a[2] = "Ai") /\ (a[4] = "r") /\ (a[5] = 5)

\* C32: a mark_free whose growth of the free list's block fails changes
\* nothing: the entries, the size and the capacity of the free list, the
\* block they are read from, and every slot and the size of the pool are as
\* before the call.
C32_FailedGrowthNoEffect ==
  [][ (MarkFreeStep /\ (last'.path = "oom"))
      => UNCHANGED <<free_list_ptr, free_list, free_list_capacity, free_list_size,
                     data_ptr, data, data_uninit, data_capacity, data_size>> ]_vars

\* C37: a step that calls free_list_remove (an allocate that takes a whole
\* entry, a mark_free whose compaction fires a rule) reads no place of
\* free_list[] past the capacity of its block.
C37_RemoveInsideBlock ==
  [][ /\ ( /\ AllocateStep
           /\ last'.count >= 1
           /\ free_list_ptr # NULL
           /\ Fits(free_list, last'.count) # {}
           /\ length(free_list[FirstFit(free_list, last'.count)]) = last'.count )
         => ~OutOfBlock(free_list, free_list_capacity)
      /\ ( /\ MarkFreeStep
           /\ last'.path = "freed"
           /\ Len(free_list') <= Len(free_list) )
         => ~OutOfBlock(Append(free_list, last'.idx), free_list_capacity') ]_vars

\* C33: whatever valid ranges mark_free was given, every entry of the free
\* list lies inside the pool: 1 <= start <= end <= data_size.
C33_EntriesInsidePool ==
  \A k \in 1 .. Len(free_list) : is_valid(free_list[k], data_size)

\* C34: under disciplined use every range the caller holds passes is_valid
\* in every state, whatever was allocated or freed since it was returned.
C34_HandlesStayValid ==
  \A r \in live : is_valid(r, data_size)

\* A mark_free at the tail lowered the pool size to the end of a range the
\* caller still holds, while an entry of the free list lies below it.
C34_Witness ==
  /\ last.op = "mark_free"
  /\ last.path = "freed"
  /\ data_size < last.idx.end
  /\ \E r \in live : r.end = data_size
  /\ free_list # << >>

\* C35: every slot of the range a successful allocate returns is in the state
\* mpfr_init leaves, not a number, when the call returns, whether the range
\* was taken from the free list or is new.
C35_AllocatedSlotsAreNaN ==
  ((last.op = "allocate") /\ (last.ret = 1))
    => /\ data_ptr # NULL
       /\ \A i \in last.idx.start .. last.idx.end :
             Slot(data, data_uninit, i) = NaN

\* The entries of the free list and the ranges of the caller that hold slot s.
EntriesWith(s) ==
  {k \in 1 .. Len(free_list) : (free_list[k].start <= s) /\ (s <= free_list[k].end)}
LiveWith(s) == {r \in live : (r.start <= s) /\ (s <= r.end)}

\* C36: under disciplined use every slot 1 .. data_size is in exactly one
\* entry of the free list or in exactly one range the caller holds, and not
\* in both.
C36_SlotAccounting ==
  \A s \in 1 .. data_size :
     Cardinality(EntriesWith(s)) + Cardinality(LiveWith(s)) = 1

\* The list and the pool size after the rule that fires first on fl has
\* fired: Rule 1 at place i, or Rule 2 for i and its first neighbour.
Fire(fl, size) ==
  LET i == FirstRule(fl, size) IN
  IF Rule1(fl, size, i)
  THEN [free_list |-> free_list_remove(fl, i), data_size |-> ShrunkSize(fl[i])]
  ELSE LET j == Min(Rule2(fl, i)) IN
       [free_list |-> free_list_remove([fl EXCEPT ![i] = Merged(fl, i, j)], j),
        data_size |-> size]

\* The number of entries after each rule firing of free_list_compress, begun
\* on the list fl with pool size size, up to its fixed point.
RECURSIVE Firings(_, _)
Firings(fl, size) ==
  IF FirstRule(fl, size) = 0 THEN << >>
  ELSE LET c == Fire(fl, size)
       IN  <<Len(c.free_list)>> \o Firings(c.free_list, c.data_size)

\* C38: the compaction a mark_free runs on its list of n entries fires at
\* most n rules, each firing leaves one entry less than the one before, and
\* it ends in a list on which no rule fires.
C38_CompactionTerminates ==
  [][ (MarkFreeStep /\ (last'.path = "freed"))
      => LET a == Append(free_list, last'.idx)
             f == Firings(a, data_size)
         IN  /\ Len(f) <= Len(a)
             /\ \A n \in 1 .. Len(f) : f[n] = Len(a) - n
             /\ Len(free_list') = Len(a) - Len(f)
             /\ FirstRule(free_list', data_size') = 0 ]_vars

\* A mark_free whose compaction fired two rules or more, the range freed
\* and an entry below it leaving the pool, and left an entry behind.
C38_Witness ==
  /\ last.op = "mark_free"
  /\ last.path = "freed"
  /\ data_size < last.idx.start - 1
  /\ Len(free_list) >= 1

====
